---- MODULE Spec2Model ----
(***************************************************************************)
(* devtools/debugger.py: the tree tracer (dbg) and the step debugger       *)
(* (step_debugger), both driven by the interpreter's sys.settrace hook.    *)
(*                                                                         *)
(* The interpreter is modelled as far as the decorators depend on it:      *)
(*   - sys.settrace installs a per-thread global trace function; it is     *)
(*     called with the "call" event of every new frame and its result      *)
(*     becomes the frame's local trace function (f_trace);                 *)
(*   - the local trace function receives the "line", "return" and          *)
(*     "exception" events of its frame, as long as a global trace function *)
(*     is installed on the thread;                                         *)
(*   - an exception raised inside a trace function unsets the hook and     *)
(*     propagates into the traced frame.                                   *)
(***************************************************************************)
EXTENDS Integers, Sequences, FiniteSets, TLC

\* ---------------------------------------------------------------- bounds
\* top-level calls the main script makes
MaxCalls == 2
\* operator inputs other than n, c, q accepted per step session
MaxBad == 1

\* retry's max_attempts in the programs
MaxAttempts == 2
\* calls the main script makes when it drives coroutines
MaxAsyncCalls == 1
\* steps other tasks of the event loop take during one call
MaxTicks == 1
\* calls each thread makes when two threads trace
MaxThreadCalls == 1
\* calls the main script makes of functions that nest traced calls
MaxNestedCalls == 1
\* calls the main script makes when the operator types lines
MaxPromptCalls == 1

\* breakpoint_line's default (None is falsy, as 0 is)
None == 0

\* ---------------------------------------------------------------- programs
\* Values are integers.  Two stand for objects that cannot be shown: one whose
\* __repr__ raises an Exception, one whose __repr__ raises an error that is not
\* an Exception (KeyboardInterrupt, SystemExit, GeneratorExit).
Unprintable == -1
Interrupting == -2

\* the error names that "except Exception" catches
Exceptions == {"ValueError", "KeyError", "AttributeError", "IndexError", "UnboundLocalError"}

\* the error repr(val) raises, "" when it returns
ReprError(val) ==
  CASE val = Unprintable -> "AttributeError"
    [] val = Interrupting -> "KeyboardInterrupt"
    [] OTHER -> ""

\* A statement of a function body: the line it is on and what it does.
Stmt(line, op, var, a, b, k, callee) ==
  [line |-> line, op |-> op, var |-> var, a |-> a, b |-> b, k |-> k, callee |-> callee]

Const(line, var, k) == Stmt(line, "const", var, "", "", k, "")
Add(line, var, a, b) == Stmt(line, "add", var, a, b, 0, "")
Nop(line) == Stmt(line, "nop", "", "", "", 0, "")
Call(line, callee) == Stmt(line, "call", "", "", "", 0, callee)
Raise(line) == Stmt(line, "raise", "", "", "", 0, "")
Await(line) == Stmt(line, "await", "", "", "", 0, "")
Return(line, var) == Stmt(line, "return", var, "", "", 0, "")
\* a body that, each time it runs, returns k or raises
Flaky(line, k) == Stmt(line, "flaky", "", "", "", k, "")

Binding(var, val) == [var |-> var, val |-> val]

Def(name, deco, async, bp, args, body) ==
  [name |-> name, deco |-> deco, async |-> async, bp |-> bp, args |-> args, body |-> body]

\* src/test.py: test_function, stepped with breakpoint_line=8
test_function ==
  Def("test_function", "step", FALSE, 8, <<>>,
      << Const(7, "x", 5), Const(8, "y", 10), Add(9, "z", "x", "y"), Nop(10),
         Return(11, "z") >>)

\* src/test.py: async_task, stepped with breakpoint_line=18
async_task ==
  Def("async_task", "step", TRUE, 18, <<>>,
      << Const(15, "a", 100), Const(16, "b", 200), Await(17), Add(18, "c", "a", "b"),
         Nop(19), Return(20, "c") >>)

\* The functions the decorators are applied to, by code identity.  Besides the
\* two of src/test.py: f(x=5, y=10) computing z = x + y; g, which raises;
\* outer, which calls an undecorated helper h, an undecorated function of
\* another scope that is also named "outer", and the dbg-decorated f; loop,
\* stepped, whose breakpoint
\* line runs twice; st, which calls another function named "st" that has a line
\* numbered as st's breakpoint; nb, stepped with the default breakpoint_line;
\* sg, stepped, raising.
Funcs ==
  [ f |-> Def("f", "dbg", FALSE, None, << Binding("x", 5), Binding("y", 10) >>,
              << Add(2, "z", "x", "y"), Return(3, "z") >>),
    g |-> Def("g", "dbg", FALSE, None, <<>>,
              << Const(2, "a", 1), Raise(3) >>),
    h |-> Def("h", "none", FALSE, None, <<>>,
              << Const(2, "u", 3), Return(3, "u") >>),
    outer |-> Def("outer", "dbg", FALSE, None, << Binding("p", 1) >>,
              << Call(2, "h"), Call(3, "outer_b"), Call(4, "f"), Return(5, "p") >>),
    outer_b |-> Def("outer", "none", FALSE, None, <<>>,
              << Const(2, "w", 7), Return(3, "w") >>),
    test_function |-> test_function,
    async_task |-> async_task,
    loop |-> Def("loop", "step", FALSE, 3, <<>>,
              << Const(2, "t", 1), Nop(3), Add(4, "t", "t", "t"), Nop(3), Return(5, "t") >>),
    st |-> Def("st", "step", FALSE, 4, <<>>,
              << Call(2, "st_b"), Const(4, "v", 2), Return(5, "v") >>),
    st_b |-> Def("st", "none", FALSE, None, <<>>,
              << Const(4, "w", 7), Return(5, "w") >>),
    nb |-> Def("nb", "step", FALSE, None, <<>>,
              << Const(2, "x", 1), Return(3, "x") >>),
    sg |-> Def("sg", "step", FALSE, 2, <<>>,
              << Const(2, "a", 1), Raise(3) >>),
    \* functions under retry: rs sync, ra async, rz with max_attempts=0
    rs |-> Def("rs", "retry", FALSE, None, <<>>, << Flaky(2, 7) >>),
    ra |-> Def("ra", "retry", TRUE, None, <<>>, << Flaky(2, 7) >>),
    rz |-> Def("rz", "retry", FALSE, None, <<>>, << Flaky(2, 7) >>),
    \* async_task with its breakpoint before the await
    async_step |-> Def("async_step", "step", TRUE, 16, <<>>,
              << Const(15, "a", 100), Const(16, "b", 200), Await(17), Add(18, "c", "a", "b"),
                 Nop(19), Return(20, "c") >>),
    \* functions with a local that cannot be shown: dv and di stepped, tv under dbg
    dv |-> Def("dv", "step", FALSE, None, <<>>,
              << Const(2, "x", 1), Const(3, "__class__", 2), Const(4, "o", Unprintable),
                 Nop(5), Return(6, "x") >>),
    di |-> Def("di", "step", FALSE, None, <<>>,
              << Const(2, "y", 2), Const(3, "o", Interrupting), Nop(4), Return(5, "y") >>),
    tv |-> Def("tv", "dbg", FALSE, None, <<>>,
              << Const(2, "x", 1), Const(3, "o", Unprintable), Nop(4), Return(5, "x") >>),
    \* functions that call a traced function and go on: so, stepped, calls f
    \* before its breakpoint line; dn, under dbg, calls the stepped nb; ao, an
    \* async stepped function, awaits async_task before its breakpoint line
    so |-> Def("so", "step", FALSE, 4, <<>>,
              << Call(2, "f"), Const(3, "v", 2), Nop(4), Return(5, "v") >>),
    dn |-> Def("dn", "dbg", FALSE, None, <<>>,
              << Call(2, "nb"), Const(3, "v", 2), Return(4, "v") >>),
    ao |-> Def("ao", "step", TRUE, 4, <<>>,
              << Call(2, "async_task"), Const(3, "v", 2), Nop(4), Return(5, "v") >>) ]

\* the arguments of retry(...) on the functions under it: rs retries on
\* ValueError only, ra on the default (Exception,)
RetryOf ==
  [ rs |-> [max_attempts |-> MaxAttempts, exceptions |-> {"ValueError"}],
    ra |-> [max_attempts |-> MaxAttempts, exceptions |-> Exceptions],
    rz |-> [max_attempts |-> 0, exceptions |-> {"ValueError"}] ]

\* what the main script may call
Entries == {"f", "g", "outer", "test_function", "async_task", "loop", "st", "nb", "sg"}

\* ---------------------------------------------------------------- values
\* LET v == x IN F(v), with x worked out once however often F uses it
With(x, F(_)) == CHOOSE r \in { F(v) : v \in {x} } : TRUE

Last(s) == s[Len(s)]
ButLast(s) == SubSeq(s, 1, Len(s) - 1)

HasVar(locals, var) == \E i \in 1..Len(locals) : locals[i].var = var
Lookup(locals, var) == (CHOOSE i \in 1..Len(locals) : locals[i].var = var)
ValueOf(locals, var) == locals[Lookup(locals, var)].val
Bind(locals, var, val) ==
  IF HasVar(locals, var)
  THEN [locals EXCEPT ![Lookup(locals, var)].val = val]
  ELSE Append(locals, Binding(var, val))

\* a trace function: none, dbg's trace_calls / trace_lines closed over func,
\* or a step session's trace_calls closed over func and the session's step_mode
\* (owner: the position of the session's frame on the thread's stack)
Closure(kind, fn, owner) == [kind |-> kind, fn |-> fn, owner |-> owner]
NoTrace == Closure("none", "", 0)

NoRet == [kind |-> "none", val |-> 0, exc |-> ""]
RetVal(v) == [kind |-> "val", val |-> v, exc |-> ""]
RetExc(e) == [kind |-> "exc", val |-> 0, exc |-> e]

\* A frame: a function's (kind "func"), dbg's wrapper ("dbgw"), a
\* _debug_function_sync/_async ("stepw") or the main script's ("main").  Beside
\* what the code keeps in it (locals, f_trace, is_top_level, step_mode) it
\* carries what was observed of it: the TraceNode built at its call event (node),
\* the line events its trace function got (seen), and of a step session the
\* pauses, the commands n (advances), c (resumed), q (aborted) and others (bad),
\* and the lines of the stepped function begun since the first pause (began).
Frame(kind, fn, locals, f_trace) ==
  [kind |-> kind, fn |-> fn, pc |-> 1, phase |-> "line", locals |-> locals,
   f_trace |-> f_trace, is_top_level |-> FALSE, step_mode |-> FALSE,
   node |-> 0, seen |-> <<>>,
   pauses |-> 0, advances |-> 0, resumed |-> FALSE, aborted |-> FALSE, bad |-> 0,
   began |-> 0]

\* ---------------------------------------------------------------- state
VARIABLES
  stk,         \* per thread: the frames in progress, innermost last
  hook,        \* per thread: the global trace function set by sys.settrace
  ret,         \* per thread: what the frame that just ended hands to its caller
  CALL_STACK,  \* debugger.py:14, the open TraceNodes (ids into nodes)
  DEBUG_TREE,  \* debugger.py:15, the root TraceNode (0 is None)
  nodes,       \* every rich Tree built so far; a child is added once, at creation
  out,         \* what the console showed during the top-level call in progress
  rendered,    \* the trees handed to console.print, with the call that printed them
  received,    \* what the main script got back from each top-level call
  proc         \* the host process: running, or exited with a status

vars == << stk, hook, ret, CALL_STACK, DEBUG_TREE, nodes, out, rendered, received, proc >>

Threads == DOMAIN stk

\* the part of the state the trace functions read and write
World(cs, tree, nds, o) == [CALL_STACK |-> cs, DEBUG_TREE |-> tree, nodes |-> nds, out |-> o]

\* ---------------------------------------------------------------- rich Tree
Node(kind, parent, label, params, line, bindings, val) ==
  [kind |-> kind, parent |-> parent, label |-> label, params |-> params,
   line |-> line, vars |-> bindings, val |-> val]

Children(nds, id) == SelectSeq([i \in 1..Len(nds) |-> i], LAMBDA i : nds[i].parent = id)

RECURSIVE Render(_, _)
\* console.print(tree): the tree as displayed, labels and children in order
Render(nds, id) ==
  With(Children(nds, id), LAMBDA below :
    [kind |-> nds[id].kind, label |-> nds[id].label, params |-> nds[id].params,
     line |-> nds[id].line, vars |-> nds[id].vars, val |-> nds[id].val,
     children |-> [i \in 1..Len(below) |-> With(below[i], LAMBDA c : Render(nds, c))]])

\* repr(val) of the values the programs bind
Repr(val) == ToString(val)

\* the co_name of a frame's code object
CoName(frame) ==
  CASE frame.kind = "func" -> Funcs[frame.fn].name
    [] frame.kind = "dbgw" -> "wrapper"
    [] frame.kind = "stepw" ->
         IF Funcs[frame.fn].async THEN "_debug_function_async" ELSE "_debug_function_sync"
    [] OTHER -> "<module>"

Line(frame) == Funcs[frame.fn].body[frame.pc].line

\* inspect.signature(func): the parameter names
Signature(func) == [i \in 1..Len(Funcs[func].args) |-> Funcs[func].args[i].var]

\* what a trace function hands back: the world, the step session's step_mode,
\* the trace function it returns, the exception it raised ("" for none), and
\* whether it is left waiting for the operator inside its input loop
Traced(g, sm, lt, err) == [g |-> g, sm |-> sm, lt |-> lt, err |-> err, wait |-> FALSE]

\* ---------------------------------------------------------------- dbg
\* debugger.py:23-47
dbg_trace_calls(func, frame, event, arg, g) ==
  IF CoName(frame) = Funcs[func].name
  THEN
    IF event = "call"
    THEN LET id == Len(g.nodes) + 1
             parent == IF g.CALL_STACK # <<>> THEN Last(g.CALL_STACK) ELSE 0
             node == Node("call", parent, Funcs[func].name, Signature(func), 0, <<>>, "")
         IN Traced([g EXCEPT !.nodes = Append(@, node),
                             !.DEBUG_TREE = IF g.CALL_STACK # <<>> THEN @ ELSE id,
                             !.CALL_STACK = Append(@, id)],
                   FALSE, Closure("dbg_lines", func, 0), "")
    ELSE IF event = "return"
    THEN IF g.CALL_STACK = <<>>
         THEN Traced(g, FALSE, NoTrace, "IndexError")
         ELSE Traced([g EXCEPT !.nodes = Append(@, Node("ret", Last(g.CALL_STACK), "", <<>>,
                                                        0, <<>>, Repr(arg))),
                               !.CALL_STACK = ButLast(@)],
                     FALSE, Closure("dbg_lines", func, 0), "")
    ELSE Traced(g, FALSE, Closure("dbg_lines", func, 0), "")
  ELSE Traced(g, FALSE, NoTrace, "")

\* trace_lines without its "if local_vars:" test
dbg_trace_lines_any_locals(func, frame, event, arg, g) ==
  IF event = "line" /\ g.CALL_STACK # <<>>
  THEN LET vars_tree ==
             Node("snap", Last(g.CALL_STACK), CoName(frame), <<>>, Line(frame),
                  [i \in 1..Len(frame.locals) |->
                     [var |-> frame.locals[i].var, val |-> Repr(frame.locals[i].val)]], "")
           failing == SelectSeq(frame.locals, LAMBDA b : ReprError(b.val) # "")
       IN IF failing # <<>>
          THEN Traced(g, FALSE, NoTrace, ReprError(failing[1].val))
          ELSE Traced([g EXCEPT !.nodes = Append(@, vars_tree)], FALSE,
                      Closure("dbg_lines", func, 0), "")
  ELSE Traced(g, FALSE, Closure("dbg_lines", func, 0), "")

\* debugger.py:49-60; repr(val) at line 57 is not guarded: the first binding
\* whose repr raises makes trace_lines raise, before vars_tree is attached
dbg_trace_lines(func, frame, event, arg, g) ==
  IF event = "line" /\ g.CALL_STACK # <<>> /\ frame.locals # <<>>
  THEN LET vars_tree ==
             Node("snap", Last(g.CALL_STACK), CoName(frame), <<>>, Line(frame),
                  [i \in 1..Len(frame.locals) |->
                     [var |-> frame.locals[i].var, val |-> Repr(frame.locals[i].val)]], "")
           failing == SelectSeq(frame.locals, LAMBDA b : ReprError(b.val) # "")
       IN IF failing # <<>>
          THEN Traced(g, FALSE, NoTrace, ReprError(failing[1].val))
          ELSE Traced([g EXCEPT !.nodes = Append(@, vars_tree)], FALSE,
                      Closure("dbg_lines", func, 0), "")
  ELSE Traced(g, FALSE, Closure("dbg_lines", func, 0), "")

\* ---------------------------------------------------------------- step_debugger
Shown(type, line, rows) == [type |-> type, line |-> line, rows |-> rows]

\* names _display_variables leaves out: var.startswith("__")
StartsWithDunder(var) == var \in {"__class__", "__name__"}

\* the row added at debugger.py:186
Placeholder == "Cannot display value"

\* debugger.py:181-186: the error that leaves _display_variables, "" for none:
\* that of the first displayed binding whose repr raises something "except
\* Exception" does not catch
display_variables_raises(local_vars) ==
  LET escaping == SelectSeq(local_vars, LAMBDA b :
                    /\ ~StartsWithDunder(b.var)
                    /\ ReprError(b.val) # ""
                    /\ ReprError(b.val) \notin Exceptions)
  IN IF escaping # <<>> THEN ReprError(escaping[1].val) ELSE ""

\* debugger.py:172-187; what it prints when it does not raise
display_variables(local_vars) ==
  IF local_vars = <<>>
  THEN << Shown("novars", 0, <<>>) >>
  ELSE LET kept == SelectSeq(local_vars, LAMBDA b : ~StartsWithDunder(b.var))
       IN << Shown("table", 0, [i \in 1..Len(kept) |->
                                  [var |-> kept[i].var,
                                   val |-> IF ReprError(kept[i].val) # "" THEN Placeholder
                                           ELSE Repr(kept[i].val)]]) >>

\* debugger.py:105-117 and 128: trace_calls of _debug_function_sync, up to its
\* input loop
sync_trace_calls(self, frame, event, arg, g, step_mode) ==
  IF CoName(frame) # Funcs[self.fn].name
  THEN Traced(g, step_mode, NoTrace, "")
  ELSE IF event = "line"
  THEN LET line_no == Line(frame)
           hit == Funcs[self.fn].bp # None /\ line_no = Funcs[self.fn].bp
           raised == display_variables_raises(frame.locals)
           shown == g.out \o << Shown("line", line_no, <<>>) >> \o display_variables(frame.locals)
           sm == IF hit THEN TRUE ELSE step_mode
       IN IF raised # ""
          THEN Traced([g EXCEPT !.out = Append(@, Shown("line", line_no, <<>>))],
                      step_mode, NoTrace, raised)
          ELSE [Traced([g EXCEPT !.out = IF hit
                                         THEN Append(shown, Shown("breakpoint", line_no, <<>>))
                                         ELSE shown],
                       sm, self, "") EXCEPT !.wait = sm]
  ELSE Traced(g, step_mode, self, "")

\* debugger.py:141-152 and 163: trace_calls of _debug_function_async, up to its
\* input loop
async_trace_calls(self, frame, event, arg, g, step_mode) ==
  IF CoName(frame) # Funcs[self.fn].name
  THEN Traced(g, step_mode, NoTrace, "")
  ELSE IF event = "line"
  THEN LET line_no == Line(frame)
           hit == Funcs[self.fn].bp # None /\ line_no = Funcs[self.fn].bp
           raised == display_variables_raises(frame.locals)
           shown == g.out \o << Shown("line", line_no, <<>>) >> \o display_variables(frame.locals)
           sm == IF hit THEN TRUE ELSE step_mode
       IN IF raised # ""
          THEN Traced([g EXCEPT !.out = Append(@, Shown("line", line_no, <<>>))],
                      step_mode, NoTrace, raised)
          ELSE [Traced([g EXCEPT !.out = IF hit
                                         THEN Append(shown, Shown("breakpoint", line_no, <<>>))
                                         ELSE shown],
                       sm, self, "") EXCEPT !.wait = sm]
  ELSE Traced(g, step_mode, self, "")

\* the input loop left by any input, an unknown one counting as 'n'
sync_input_loop_any_key(cmd, g, step_mode) ==
  LET asked == [g EXCEPT !.out = Append(@, Shown("prompt", 0, <<>>))]
  IN CASE cmd = "n" -> [Traced(asked, step_mode, NoTrace, "") EXCEPT !.wait = FALSE]
       [] cmd = "c" -> [Traced(asked, FALSE, NoTrace, "") EXCEPT !.wait = FALSE]
       [] cmd = "q" -> [Traced([asked EXCEPT !.out = Append(@, Shown("stopped", 0, <<>>))],
                               step_mode, NoTrace, "SystemExit") EXCEPT !.wait = FALSE]
       [] OTHER -> [Traced(asked, step_mode, NoTrace, "") EXCEPT !.wait = FALSE]

\* debugger.py:118-127: one turn of the input loop of the sync trace_calls, on
\* the command console.input returned (stripped and lowered)
sync_input_loop(cmd, g, step_mode) ==
  LET asked == [g EXCEPT !.out = Append(@, Shown("prompt", 0, <<>>))]
  IN CASE cmd = "n" -> [Traced(asked, step_mode, NoTrace, "") EXCEPT !.wait = FALSE]
       [] cmd = "c" -> [Traced(asked, FALSE, NoTrace, "") EXCEPT !.wait = FALSE]
       [] cmd = "q" -> [Traced([asked EXCEPT !.out = Append(@, Shown("stopped", 0, <<>>))],
                               step_mode, NoTrace, "SystemExit") EXCEPT !.wait = FALSE]
       [] OTHER -> [Traced(asked, step_mode, NoTrace, "") EXCEPT !.wait = step_mode]

\* the async loop with 'n' leaving single-step mode, as 'c' does
async_input_loop_next_resumes(cmd, g, step_mode) ==
  LET asked == [g EXCEPT !.out = Append(@, Shown("prompt", 0, <<>>))]
  IN CASE cmd \in {"n", "c"} -> [Traced(asked, FALSE, NoTrace, "") EXCEPT !.wait = FALSE]
       [] cmd = "q" -> [Traced([asked EXCEPT !.out = Append(@, Shown("stopped", 0, <<>>))],
                               step_mode, NoTrace, "SystemExit") EXCEPT !.wait = FALSE]
       [] OTHER -> [Traced(asked, step_mode, NoTrace, "") EXCEPT !.wait = step_mode]

\* debugger.py:153-162: the same loop in the async trace_calls
async_input_loop(cmd, g, step_mode) ==
  LET asked == [g EXCEPT !.out = Append(@, Shown("prompt", 0, <<>>))]
  IN CASE cmd = "n" -> [Traced(asked, step_mode, NoTrace, "") EXCEPT !.wait = FALSE]
       [] cmd = "c" -> [Traced(asked, FALSE, NoTrace, "") EXCEPT !.wait = FALSE]
       [] cmd = "q" -> [Traced([asked EXCEPT !.out = Append(@, Shown("stopped", 0, <<>>))],
                               step_mode, NoTrace, "SystemExit") EXCEPT !.wait = FALSE]
       [] OTHER -> [Traced(asked, step_mode, NoTrace, "") EXCEPT !.wait = step_mode]

\* ---------------------------------------------------------------- the interpreter
IsStep(cl) == cl.kind \in {"step_sync", "step_async"}

\* a thread's machine: its frames, its hook, the pending result, and the shared
\* world and render log
Machine(s, hk, r, g, rd) == [stk |-> s, hook |-> hk, ret |-> r, g |-> g, rendered |-> rd]

Top(m) == Last(m.stk)

\* calling the trace function cl with an event of the innermost frame
CallTrace(cl, m, event, arg) ==
  LET frame == Top(m)
      sm == IF IsStep(cl) THEN m.stk[cl.owner].step_mode ELSE FALSE
  IN CASE cl.kind = "dbg_calls" -> dbg_trace_calls(cl.fn, frame, event, arg, m.g)
       [] cl.kind = "dbg_lines" -> dbg_trace_lines(cl.fn, frame, event, arg, m.g)
       [] cl.kind = "step_sync" -> sync_trace_calls(cl, frame, event, arg, m.g, sm)
       [] cl.kind = "step_async" -> async_trace_calls(cl, frame, event, arg, m.g, sm)

\* the machine after trace function cl handled an event: the world it left, the
\* session's step_mode, and the frame's f_trace (kept when it returned None)
AfterTrace(cl, m, r) ==
  LET s1 == IF IsStep(cl) THEN [m.stk EXCEPT ![cl.owner].step_mode = r.sm] ELSE m.stk
      s2 == [s1 EXCEPT ![Len(s1)].f_trace = IF r.lt.kind # "none" THEN r.lt ELSE @]
  IN [m EXCEPT !.g = r.g, !.stk = s2]

\* the "call" event of the innermost frame: to the thread's global trace function
FireCall(m) ==
  With(m, LAMBDA now :
    IF now.hook.kind = "none" THEN now
    ELSE With(CallTrace(now.hook, now, "call", 0), LAMBDA r : AfterTrace(now.hook, now, r)))

\* a "line", "return" or "exception" event of the innermost frame: to its local
\* trace function, while the thread has a global trace function
FireLocal(m, event, arg) ==
  With(m, LAMBDA now :
    IF now.hook.kind = "none" \/ Top(now).f_trace.kind = "none" THEN now
    ELSE With(CallTrace(Top(now).f_trace, now, event, arg),
              LAMBDA r : AfterTrace(Top(now).f_trace, now, r)))

SetTop(m, field, v) == [m EXCEPT !.stk = Append(ButLast(@), [Last(@) EXCEPT ![field] = v])]
Push(m, frame) == [m EXCEPT !.stk = Append(@, frame)]
Pop(m) == [m EXCEPT !.stk = ButLast(@)]

\* entering the body of function e
PushFunc(m, e) ==
  With(m, LAMBDA m0 :
    With(FireCall(Push(m0, Frame("func", e, Funcs[e].args, NoTrace))), LAMBDA m1 :
      SetTop(m1, "node", IF Len(m1.g.nodes) > Len(m0.g.nodes) THEN Len(m1.g.nodes) ELSE 0)))

\* ---------------------------------------------------------------- the wrappers
\* dbg's wrapper taking every invocation for a top-level one, whatever is on
\* CALL_STACK
dbg_wrapper_enter_own_root(m, e) ==
  With(FireCall(Push(m, [Frame("dbgw", e, <<>>, NoTrace) EXCEPT !.phase = "calling"])),
       LAMBDA m1 :
    LET is_top_level == TRUE
        m2 == [SetTop(m1, "is_top_level", is_top_level) EXCEPT !.hook = Closure("dbg_calls", e, 0)]
    IN PushFunc(m2, e))

\* debugger.py:63-70: dbg's wrapper up to its call of func.  The wrapper's own
\* frame raises a "call" event too, under whatever hook is installed.
dbg_wrapper_enter(m, e) ==
  With(FireCall(Push(m, [Frame("dbgw", e, <<>>, NoTrace) EXCEPT !.phase = "calling"])),
       LAMBDA m1 :
    LET is_top_level == m1.g.CALL_STACK = <<>>
        m2 == [SetTop(m1, "is_top_level", is_top_level) EXCEPT !.hook = Closure("dbg_calls", e, 0)]
    IN PushFunc(m2, e))

\* the wrapper's finally block without its sys.settrace(None)
dbg_wrapper_exit_hook_kept(m) ==
  LET w == Top(m)
      unset == m
  IN IF w.is_top_level /\ m.g.DEBUG_TREE # 0
     THEN IF m.ret.kind = "exc"
          THEN Pop([unset EXCEPT !.ret = RetExc("UnboundLocalError")])
          ELSE With(Append(m.g.nodes, Node("ret", m.g.DEBUG_TREE, "", <<>>, 0, <<>>,
                                           Repr(m.ret.val))), LAMBDA nds :
                 LET printed == [call |-> m.stk[1].pc, depth |-> Len(m.stk), fn |-> w.fn,
                                 tree |-> Render(nds, m.g.DEBUG_TREE)]
                 IN Pop([unset EXCEPT !.g.nodes = nds,
                                      !.g.out = @ \o << Shown("tree", 0, <<>>), Shown("time", 0, <<>>) >>,
                                      !.g.DEBUG_TREE = 0,
                                      !.rendered = Append(@, printed)]))
     ELSE Pop(unset)

\* debugger.py:71-80: the finally block of dbg's wrapper and its return, with
\* func's outcome in m.ret; result is unbound when func raised
dbg_wrapper_exit(m) ==
  LET w == Top(m)
      unset == [m EXCEPT !.hook = NoTrace]
  IN IF w.is_top_level /\ m.g.DEBUG_TREE # 0
     THEN IF m.ret.kind = "exc"
          THEN Pop([unset EXCEPT !.ret = RetExc("UnboundLocalError")])
          ELSE With(Append(m.g.nodes, Node("ret", m.g.DEBUG_TREE, "", <<>>, 0, <<>>,
                                           Repr(m.ret.val))), LAMBDA nds :
                 LET printed == [call |-> m.stk[1].pc, depth |-> Len(m.stk), fn |-> w.fn,
                                 tree |-> Render(nds, m.g.DEBUG_TREE)]
                 IN Pop([unset EXCEPT !.g.nodes = nds,
                                      !.g.out = @ \o << Shown("tree", 0, <<>>), Shown("time", 0, <<>>) >>,
                                      !.g.DEBUG_TREE = 0,
                                      !.rendered = Append(@, printed)]))
     ELSE Pop(unset)

\* debugger.py:101-103 and 130-132: _debug_function_sync up to its call of func
debug_function_sync_enter(m, e) ==
  With(FireCall(Push(m, [Frame("stepw", e, <<>>, NoTrace) EXCEPT !.phase = "calling"])),
       LAMBDA m1 :
    LET m2 == [SetTop(m1, "step_mode", FALSE) EXCEPT !.hook = Closure("step_sync", e, Len(m1.stk))]
    IN PushFunc(m2, e))

\* _debug_function_sync with settrace(None) after the call instead of in a
\* finally block
debug_function_sync_exit_no_finally(m) ==
  IF m.ret.kind = "exc" THEN Pop(m) ELSE Pop([m EXCEPT !.hook = NoTrace])

\* debugger.py:133-135: its finally block and return
debug_function_sync_exit(m) == Pop([m EXCEPT !.hook = NoTrace])

\* debugger.py:137-139 and 165-167: _debug_function_async up to its await of func
debug_function_async_enter(m, e) ==
  With(FireCall(Push(m, [Frame("stepw", e, <<>>, NoTrace) EXCEPT !.phase = "calling"])),
       LAMBDA m1 :
    LET m2 == [SetTop(m1, "step_mode", FALSE) EXCEPT !.hook = Closure("step_async", e, Len(m1.stk))]
    IN PushFunc(m2, e))

\* debugger.py:168-170: its finally block and return
debug_function_async_exit(m) == Pop([m EXCEPT !.hook = NoTrace])

\* the loop test taken as "attempts <= max_attempts"
retry_again_inclusive(attempts, max_attempts) == attempts <= max_attempts

\* utils.py:70 (and 52): the loop test of retry's wrappers
retry_again(attempts, max_attempts) == attempts < max_attempts

\* utils.py:69-72 and 81-82: the loop test of sync_wrapper and what follows it:
\* the next call of func, or the "failed after" message and return None
retry_sync_loop(m) ==
  With(m, LAMBDA now :
    LET w == Top(now)
    IN IF retry_again(ValueOf(w.locals, "attempts"), RetryOf[w.fn].max_attempts)
       THEN PushFunc(now, w.fn)
       ELSE Pop([now EXCEPT !.g.out = Append(@, Shown("failed", 0, <<>>)),
                            !.ret = RetVal(None)]))

\* utils.py:67-69: sync_wrapper up to its loop
retry_sync_enter(m, e) ==
  retry_sync_loop(FireCall(Push(m, [Frame("retryw", e, << Binding("attempts", 0) >>, NoTrace)
                                      EXCEPT !.phase = "calling"])))

\* utils.py:72-80: sync_wrapper with func's outcome in m.ret: return it, or
\* count the attempt and go round the loop, or give up on an unexpected error
retry_sync_wrapper(m) ==
  LET w == Top(m)
      attempts == ValueOf(w.locals, "attempts") + 1
  IN IF m.ret.kind = "val" THEN Pop(m)
     ELSE IF m.ret.exc \in RetryOf[w.fn].exceptions
     THEN retry_sync_loop([SetTop(m, "locals", Bind(w.locals, "attempts", attempts))
                             EXCEPT !.ret = NoRet,
                                    !.g.out = Append(@, Shown("attempt", attempts, <<>>))])
     ELSE IF m.ret.exc \in Exceptions
     THEN Pop([m EXCEPT !.g.out = @ \o << Shown("unexpected", 0, <<>>), Shown("failed", 0, <<>>) >>,
                        !.ret = RetVal(None)])
     ELSE Pop(m)

\* utils.py:51-54 and 63-64: the same loop in async_wrapper
retry_async_loop(m) ==
  With(m, LAMBDA now :
    LET w == Top(now)
    IN IF retry_again(ValueOf(w.locals, "attempts"), RetryOf[w.fn].max_attempts)
       THEN PushFunc(now, w.fn)
       ELSE Pop([now EXCEPT !.g.out = Append(@, Shown("failed", 0, <<>>)),
                            !.ret = RetVal(None)]))

\* utils.py:49-51: async_wrapper up to its loop
retry_async_enter(m, e) ==
  retry_async_loop(FireCall(Push(m, [Frame("retryw", e, << Binding("attempts", 0) >>, NoTrace)
                                       EXCEPT !.phase = "calling"])))

\* utils.py:54-62: async_wrapper with the outcome of "await func(...)" in m.ret
retry_async_wrapper(m) ==
  LET w == Top(m)
      attempts == ValueOf(w.locals, "attempts") + 1
  IN IF m.ret.kind = "val" THEN Pop(m)
     ELSE IF m.ret.exc \in RetryOf[w.fn].exceptions
     THEN retry_async_loop([SetTop(m, "locals", Bind(w.locals, "attempts", attempts))
                              EXCEPT !.ret = NoRet,
                                     !.g.out = Append(@, Shown("attempt", attempts, <<>>))])
     ELSE IF m.ret.exc \in Exceptions
     THEN Pop([m EXCEPT !.g.out = @ \o << Shown("unexpected", 0, <<>>), Shown("failed", 0, <<>>) >>,
                        !.ret = RetVal(None)])
     ELSE Pop(m)

\* utils.py:84: what retry(...) makes of func
retry(m, e) ==
  IF Funcs[e].async THEN retry_async_enter(m, e) ELSE retry_sync_enter(m, e)

\* debugger.py:86-99: what step_debugger(breakpoint_line) makes of func
step_debugger(m, e) ==
  IF Funcs[e].async THEN debug_function_async_enter(m, e) ELSE debug_function_sync_enter(m, e)

\* calling e by its name: through its decorator's wrapper when it has one
Invoke(m, e) ==
  CASE Funcs[e].deco = "dbg" -> dbg_wrapper_enter(m, e)
    [] Funcs[e].deco = "step" -> step_debugger(m, e)
    [] Funcs[e].deco = "retry" -> retry(m, e)
    [] OTHER -> PushFunc(m, e)

\* ---------------------------------------------------------------- actions
Mach(t) == Machine(stk[t], hook[t], ret[t], World(CALL_STACK, DEBUG_TREE, nodes, out), rendered)

Commit(t, m) ==
  \E new \in {m} :
    /\ stk' = [stk EXCEPT ![t] = new.stk]
    /\ hook' = [hook EXCEPT ![t] = new.hook]
    /\ ret' = [ret EXCEPT ![t] = new.ret]
    /\ CALL_STACK' = new.g.CALL_STACK
    /\ DEBUG_TREE' = new.g.DEBUG_TREE
    /\ nodes' = new.g.nodes
    /\ out' = new.g.out
    /\ rendered' = new.rendered

Running(t) == proc.status = "running" /\ stk[t] # <<>>
TopIs(t, kind, phase) == Running(t) /\ Last(stk[t]).kind = kind /\ Last(stk[t]).phase = phase

\* the main script calls e
MainCall(t, e) ==
  /\ TopIs(t, "main", "idle")
  /\ Last(stk[t]).pc <= MaxCalls
  /\ LET m0 == [Mach(t) EXCEPT !.stk[1].phase = "calling", !.stk[1].fn = e]
     IN Commit(t, Invoke(m0, e))
  /\ UNCHANGED << received, proc >>

\* the call comes back to the main script, which made it inside a
\* try/except BaseException (guarded) or not; an exception it does not catch
\* ends the process (SystemExit(0) with status 0).  The console log starts
\* afresh for the next call.
MainReturn(t, guarded) ==
  /\ TopIs(t, "main", "calling")
  /\ ret[t].kind # "none"
  /\ ret[t].kind = "val" => guarded
  /\ LET main == Last(stk[t])
     IN /\ received' = Append(received, [fn |-> main.fn, kind |-> ret[t].kind, val |-> ret[t].val,
                                          exc |-> ret[t].exc, caught |-> guarded])
        /\ proc' = IF ret[t].kind = "exc" /\ ~guarded
                   THEN [status |-> "exited", code |-> IF ret[t].exc = "SystemExit" THEN 0 ELSE 1]
                   ELSE proc
        /\ Commit(t, [Mach(t) EXCEPT !.stk[1].phase = "idle", !.stk[1].pc = @ + 1,
                                     !.ret = NoRet, !.g.out = <<>>])

\* the interpreter reaches the next line of the innermost function: its "line"
\* event, before the line runs
LineEvent(t) ==
  /\ TopIs(t, "func", "line")
  /\ LET m == Mach(t)
         cl == Top(m).f_trace
         traced == m.hook.kind # "none" /\ cl.kind # "none"
     IN \E r \in { IF traced THEN CallTrace(cl, m, "line", 0) ELSE Traced(m.g, FALSE, NoTrace, "") } :
          LET rows == [i \in 1..Len(Top(m).locals) |->
                         [var |-> Top(m).locals[i].var, val |-> Repr(Top(m).locals[i].val)]]
              m1 == IF traced
                    THEN SetTop(AfterTrace(cl, m, r), "seen",
                                Append(Top(m).seen, [line |-> Line(Top(m)), vars |-> rows]))
                    ELSE m
              m2 == IF r.wait
                    THEN [SetTop(m1, "phase", "paused") EXCEPT !.stk[cl.owner].pauses = @ + 1]
                    ELSE SetTop(m1, "phase", "exec")
          IN Commit(t, IF r.err # ""
                       THEN \* the trace function raised: the hook is unset and the
                            \* exception is raised in the traced frame
                            Pop([m1 EXCEPT !.hook = NoTrace, !.ret = RetExc(r.err)])
                       ELSE m2)
  /\ UNCHANGED << received, proc >>

\* the operator answers the prompt of the session paused in its input loop
Command(t, cmd) ==
  /\ TopIs(t, "func", "paused")
  /\ LET m == Mach(t)
         cl == Top(m).f_trace
         sess == m.stk[cl.owner]
         r == IF cl.kind = "step_async" THEN async_input_loop(cmd, m.g, sess.step_mode)
              ELSE sync_input_loop(cmd, m.g, sess.step_mode)
         m1 == [m EXCEPT !.g = r.g,
                         !.stk[cl.owner] = [@ EXCEPT !.step_mode = r.sm,
                                                     !.advances = IF cmd = "n" THEN @ + 1 ELSE @,
                                                     !.resumed = @ \/ cmd = "c"]]
     IN /\ cmd \notin {"n", "c", "q"} => sess.bad < MaxBad
        /\ Commit(t,
             IF r.err # ""
             THEN \* the trace function raised: the hook is unset and the exception
                  \* is raised in the traced frame, which has no handler
                  Pop([m1 EXCEPT !.hook = NoTrace, !.ret = RetExc(r.err),
                                 !.stk[cl.owner].aborted = TRUE])
             ELSE IF r.wait
             THEN [m1 EXCEPT !.stk[cl.owner].bad = @ + 1]
             ELSE SetTop(m1, "phase", "exec"))
  /\ UNCHANGED << received, proc >>

\* what the operator may type at the prompt
Inputs == {"n", "N", " c ", "q", "Q ", "x", "next", ""}

\* debugger.py:119 and 154: .strip().lower() of the line read
strip_lower(raw) ==
  CASE raw \in {"n", "N"} -> "n"
    [] raw = " c " -> "c"
    [] raw \in {"q", "Q "} -> "q"
    [] OTHER -> raw

\* the operator types a line at the prompt of the paused session
Input(t, raw) == Command(t, strip_lower(raw))

Advance(m) ==
  [m EXCEPT !.stk = Append(ButLast(@), [Last(@) EXCEPT !.pc = @ + 1, !.phase = "line"])]

\* the innermost function leaves by an exception it does not handle: its
\* "exception" and "return" events, then its frame is gone
Unwind(m, exc) ==
  [Pop(FireLocal(FireLocal(m, "exception", 0), "return", 0)) EXCEPT !.ret = RetExc(exc)]

\* the statement the innermost function is on
ExecStmt(m) ==
  LET fr == Top(m)
      st == Funcs[fr.fn].body[fr.pc]
  IN CASE st.op = "const" -> Advance(SetTop(m, "locals", Bind(fr.locals, st.var, st.k)))
       [] st.op = "add" ->
            Advance(SetTop(m, "locals",
                           Bind(fr.locals, st.var,
                                ValueOf(fr.locals, st.a) + ValueOf(fr.locals, st.b))))
       [] st.op = "nop" -> Advance(m)
       [] st.op = "call" -> Invoke(SetTop(m, "phase", "calling"), st.callee)
       [] st.op = "await" -> SetTop(FireLocal(m, "return", 0), "phase", "suspended")
       [] st.op = "return" ->
            [Pop(FireLocal(m, "return", ValueOf(fr.locals, st.var)))
               EXCEPT !.ret = RetVal(ValueOf(fr.locals, st.var))]
       [] st.op = "raise" -> Unwind(m, "ValueError")

\* the innermost function runs the line it is on
Exec(t) ==
  /\ TopIs(t, "func", "exec")
  /\ LET m == Mach(t)
         cl == Top(m).f_trace
         own == IsStep(cl) /\ Top(m).fn = cl.fn /\ m.stk[cl.owner].pauses > 0
     IN Commit(t, ExecStmt(IF own THEN [m EXCEPT !.stk[cl.owner].began = @ + 1] ELSE m))
  /\ UNCHANGED << received, proc >>

\* the event loop resumes the coroutine suspended at its await: a "call" event
\* of its frame, then its next line
Resume(t) ==
  /\ TopIs(t, "func", "suspended")
  /\ Commit(t, Advance(FireCall(Mach(t))))
  /\ UNCHANGED << received, proc >>

\* a call made by the innermost function comes back: its value is dropped and
\* the function goes on, or its exception leaves the function too
CallDone(t) ==
  /\ TopIs(t, "func", "calling")
  /\ ret[t].kind # "none"
  /\ Commit(t, IF ret[t].kind = "val"
               THEN [Advance(Mach(t)) EXCEPT !.ret = NoRet]
               ELSE Unwind(Mach(t), ret[t].exc))
  /\ UNCHANGED << received, proc >>

\* func came back to dbg's wrapper
DbgExit(t) ==
  /\ TopIs(t, "dbgw", "calling")
  /\ ret[t].kind # "none"
  /\ Commit(t, dbg_wrapper_exit(Mach(t)))
  /\ UNCHANGED << received, proc >>

\* func came back to _debug_function_sync
StepSyncExit(t) ==
  /\ TopIs(t, "stepw", "calling")
  /\ ~Funcs[Last(stk[t]).fn].async
  /\ ret[t].kind # "none"
  /\ Commit(t, debug_function_sync_exit(Mach(t)))
  /\ UNCHANGED << received, proc >>

\* func came back to _debug_function_async
StepAsyncExit(t) ==
  /\ TopIs(t, "stepw", "calling")
  /\ Funcs[Last(stk[t]).fn].async
  /\ ret[t].kind # "none"
  /\ Commit(t, debug_function_async_exit(Mach(t)))
  /\ UNCHANGED << received, proc >>

\* how a run of a flaky body may end: with its value or with an error in or
\* out of Exception
FlakyOutcomes == {"return", "ValueError", "KeyError", "KeyboardInterrupt"}

\* the innermost function runs its flaky body, which shows on the console
\* that it ran and how it ended
RunFlaky(t, outcome) ==
  /\ TopIs(t, "func", "exec")
  /\ Funcs[Last(stk[t]).fn].body[Last(stk[t]).pc].op = "flaky"
  /\ LET m == [Mach(t) EXCEPT !.g.out = Append(@, Shown("ran", 0, << outcome >>))]
         k == Funcs[Last(stk[t]).fn].body[Last(stk[t]).pc].k
     IN Commit(t, IF outcome = "return"
                  THEN [Pop(FireLocal(m, "return", k)) EXCEPT !.ret = RetVal(k)]
                  ELSE Unwind(m, outcome))
  /\ UNCHANGED << received, proc >>

\* func came back to retry's wrapper
RetryStep(t) ==
  /\ TopIs(t, "retryw", "calling")
  /\ ret[t].kind # "none"
  /\ Commit(t, IF Funcs[Last(stk[t]).fn].async
               THEN retry_async_wrapper(Mach(t))
               ELSE retry_sync_wrapper(Mach(t)))
  /\ UNCHANGED << received, proc >>

\* the event loop of thread t is in control: the coroutine it was running is
\* suspended at an await.  A trace function waiting in console.input
\* (debugger.py:154) has not handed control back.
LoopInControl(t) == TopIs(t, "func", "suspended")

\* the steps other tasks have taken, as they show on the console
Ticks == Len(SelectSeq(out, LAMBDA o : o.type = "task"))

\* the event loop runs a step of another ready task, which prints; its frames'
\* events reach the installed trace function and are dropped by name
OtherTask(t) ==
  /\ LoopInControl(t)
  /\ Ticks < MaxTicks
  /\ out' = Append(out, Shown("task", 0, <<>>))
  /\ UNCHANGED << stk, hook, ret, CALL_STACK, DEBUG_TREE, nodes, rendered, received, proc >>

\* ---------------------------------------------------------------- specification
Commands == {"n", "c", "q", "x"}

MainFrame == [Frame("main", "", <<>>, NoTrace) EXCEPT !.phase = "idle"]

Init ==
  /\ stk = [t \in {1} |-> << MainFrame >>]
  /\ hook = [t \in {1} |-> NoTrace]
  /\ ret = [t \in {1} |-> NoRet]
  /\ CALL_STACK = <<>>
  /\ DEBUG_TREE = 0
  /\ nodes = <<>>
  /\ out = <<>>
  /\ rendered = <<>>
  /\ received = <<>>
  /\ proc = [status |-> "running", code |-> 0]

Next ==
  \E t \in Threads :
    \/ \E e \in Entries : MainCall(t, e)
    \/ \E guarded \in BOOLEAN : MainReturn(t, guarded)
    \/ LineEvent(t)
    \/ \E cmd \in Commands : Command(t, cmd)
    \/ Exec(t)
    \/ Resume(t)
    \/ CallDone(t)
    \/ DbgExit(t)
    \/ StepSyncExit(t)
    \/ StepAsyncExit(t)

Spec == Init /\ [][Next]_vars

\* the same program with a main script that calls the functions holding
\* values that cannot be shown (and f, which holds none)
ReprEntries == {"dv", "di", "tv", "f"}

NextRepr ==
  \E t \in Threads :
    \/ \E e \in ReprEntries : MainCall(t, e)
    \/ \E guarded \in BOOLEAN : MainReturn(t, guarded)
    \/ LineEvent(t)
    \/ Exec(t)
    \/ DbgExit(t)
    \/ StepSyncExit(t)

SpecRepr == Init /\ [][NextRepr]_vars

\* the same program with a main script that calls functions under retry
RetryEntries == {"rs", "ra", "rz"}

NextRetry ==
  \E t \in Threads :
    \/ \E e \in RetryEntries : MainCall(t, e)
    \/ \E guarded \in BOOLEAN : MainReturn(t, guarded)
    \/ LineEvent(t)
    \/ \E outcome \in FlakyOutcomes : RunFlaky(t, outcome)
    \/ RetryStep(t)

SpecRetry == Init /\ [][NextRetry]_vars

\* the same program with a main script that runs stepped coroutines on an
\* event loop that has other tasks ready
AsyncEntries == {"async_task", "async_step"}

NextAsync ==
  \E t \in Threads :
    \/ \E e \in AsyncEntries : Last(stk[t]).pc <= MaxAsyncCalls /\ MainCall(t, e)
    \/ \E guarded \in BOOLEAN : MainReturn(t, guarded)
    \/ LineEvent(t)
    \/ \E cmd \in Commands : Command(t, cmd)
    \/ Exec(t)
    \/ Resume(t)
    \/ OtherTask(t)
    \/ StepAsyncExit(t)

SpecAsync == Init /\ [][NextAsync]_vars

\* the same program with a second thread: the main script calls dbg-decorated
\* functions itself (thread 1) and hands calls of them to the executor of
\* utils.py, whose worker (thread 2) runs them and keeps whatever they raise
\* in the future
MainThread == 1
Worker == 2

ThreadEntries == {"f", "g"}

InitThreads ==
  /\ stk = [t \in {MainThread, Worker} |-> << MainFrame >>]
  /\ hook = [t \in {MainThread, Worker} |-> NoTrace]
  /\ ret = [t \in {MainThread, Worker} |-> NoRet]
  /\ CALL_STACK = <<>>
  /\ DEBUG_TREE = 0
  /\ nodes = <<>>
  /\ out = <<>>
  /\ rendered = <<>>
  /\ received = <<>>
  /\ proc = [status |-> "running", code |-> 0]

NextThreads ==
  \E t \in Threads :
    \/ \E e \in ThreadEntries : Last(stk[t]).pc <= MaxThreadCalls /\ MainCall(t, e)
    \/ \E guarded \in BOOLEAN : (t = Worker => guarded) /\ MainReturn(t, guarded)
    \/ LineEvent(t)
    \/ Exec(t)
    \/ DbgExit(t)

SpecThreads == InitThreads /\ [][NextThreads]_vars

\* the same program with a main script that calls functions which call a
\* traced function themselves
NestedEntries == {"outer", "so", "dn", "ao"}

NextNested ==
  \E t \in Threads :
    \/ \E e \in NestedEntries : Last(stk[t]).pc <= MaxNestedCalls /\ MainCall(t, e)
    \/ \E guarded \in BOOLEAN : MainReturn(t, guarded)
    \/ LineEvent(t)
    \/ \E cmd \in Commands : Command(t, cmd)
    \/ Exec(t)
    \/ Resume(t)
    \/ CallDone(t)
    \/ DbgExit(t)
    \/ StepSyncExit(t)
    \/ StepAsyncExit(t)

SpecNested == Init /\ [][NextNested]_vars

\* the same program with a main script that calls stepped functions, and an
\* operator who types lines, not commands
PromptEntries == {"test_function", "loop", "async_step"}

NextPrompt ==
  \E t \in Threads :
    \/ \E e \in PromptEntries : Last(stk[t]).pc <= MaxPromptCalls /\ MainCall(t, e)
    \/ \E guarded \in BOOLEAN : MainReturn(t, guarded)
    \/ LineEvent(t)
    \/ \E raw \in Inputs : Input(t, raw)
    \/ Exec(t)
    \/ Resume(t)
    \/ StepSyncExit(t)
    \/ StepAsyncExit(t)

SpecPrompt == Init /\ [][NextPrompt]_vars

\* ---------------------------------------------------------------- claims
TopFrame(t) == Last(stk[t])

\* the function a frame is calling
Callee(frame) ==
  IF frame.kind = "main" THEN frame.fn ELSE Funcs[frame.fn].body[frame.pc].callee

\* a wrapper (dbg's, _debug_function_sync or _debug_function_async) has just
\* handed control back to the frame that called it, by return or by exception
WrapperHandedBack(t) ==
  /\ Running(t)
  /\ TopFrame(t).kind \in {"main", "func"}
  /\ TopFrame(t).phase = "calling"
  /\ ret[t].kind # "none"
  /\ Funcs[Callee(TopFrame(t))].deco # "none"

\* C1: whenever dbg's wrapper or a step wrapper (sync or async) hands control
\* back to its caller, after the traced function returned, raised, or the
\* operator aborted, the thread's trace hook is None.
C1_HookReleasedOnEveryExit ==
  \A t \in Threads : WrapperHandedBack(t) => hook[t] = NoTrace

\* a step wrapper handed the traced function's own exception back, hook released
C1_Witness ==
  \E t \in Threads :
    /\ WrapperHandedBack(t)
    /\ Funcs[Callee(TopFrame(t))].deco = "step"
    /\ ret[t].kind = "exc" /\ ret[t].exc = "ValueError"
    /\ hook[t] = NoTrace

\* the trees printed by the wrapper of the i-th top-level call itself
RenderedBy(i) == { j \in 1..Len(rendered) : rendered[j].call = i /\ rendered[j].depth = 2 }

\* C2: every top-level dbg invocation that completes renders its tree (and
\* elapsed time) exactly once, at its own completion, and an invocation
\* started while another is open renders nothing; so the second of two
\* sequential top-level invocations renders its tree too.
C2_OutermostRendersOnce ==
  /\ \A i \in 1..Len(received) :
       (Funcs[received[i].fn].deco = "dbg" /\ received[i].kind = "val")
         => Cardinality(RenderedBy(i)) = 1
  /\ \A j \in 1..Len(rendered) : rendered[j].depth = 2

\* C3: when the function wrapped by dbg raises, the caller receives that very
\* error (the programs raise ValueError), and no tree is rendered for the call.
C3_OriginalErrorReachesCaller ==
  \A i \in 1..Len(received) :
    (Funcs[received[i].fn].deco = "dbg" /\ received[i].kind = "exc")
      => /\ received[i].exc = "ValueError"
         /\ \A j \in 1..Len(rendered) : rendered[j].call # i

\* C4: two calls in sequence of the same dbg-wrapped pure function with the
\* same arguments (f(5, 10)) render two roots with the same labels, the same
\* snapshots in the same order and the same return label.
C4_SameCallSameTree ==
  \A i, j \in 1..Len(received) :
    (i < j /\ received[i].fn = "f" /\ received[j].fn = "f"
       /\ received[i].kind = "val" /\ received[j].kind = "val")
      => \E a \in RenderedBy(i), b \in RenderedBy(j) : rendered[a].tree = rendered[b].tree

Callees(fn) ==
  { Funcs[fn].body[k].callee : k \in { n \in 1..Len(Funcs[fn].body) : Funcs[fn].body[n].op = "call" } }

\* fn makes no call that is traced: it calls no decorated function and no
\* function that passes for it in trace_calls
NoNestedTraced(fn) ==
  \A c \in Callees(fn) :
    Funcs[c].deco = "none" /\ Funcs[c].name # Funcs[fn].name /\ Callees(c) = {}

\* the snapshots under TraceNode id, as (line, bindings), in order
Snapshots(id) ==
  [k \in 1..Len(Children(nodes, id)) |->
     [line |-> nodes[Children(nodes, id)[k]].line, vars |-> nodes[Children(nodes, id)[k]].vars]]

\* an activation of a dbg-decorated function that makes no nested traced call
PlainDbgCall(t, i) ==
  /\ i > 1
  /\ stk[t][i].kind = "func"
  /\ stk[t][i - 1].kind = "dbgw"
  /\ NoNestedTraced(stk[t][i].fn)

\* C5: for a dbg-traced call that makes no nested traced call, the TraceNode
\* built for it has no TraceNode child: while the call runs, its children are
\* exactly one snapshot per line event whose bindings are non-empty, in order,
\* each with the bindings as they were at that event; an event with no
\* bindings adds nothing.  Every line the call reaches raises such an event.
C5_WhileRunning ==
  \A t \in Threads : \A i \in 1..Len(stk[t]) :
    PlainDbgCall(t, i) =>
      LET fr == stk[t][i]
      IN /\ fr.node # 0
         /\ Len(fr.seen) = IF fr.phase = "line" THEN fr.pc - 1 ELSE fr.pc
         /\ \A c \in 1..Len(Children(nodes, fr.node)) :
              nodes[Children(nodes, fr.node)[c]].kind = "snap"
         /\ Snapshots(fr.node) = SelectSeq(fr.seen, LAMBDA ev : ev.vars # <<>>)

\* C5, of the tree as printed: under the root of such a call come snapshots
\* only, then the one return label
C5_PrintedTreeIsFlat ==
  \A j \in 1..Len(rendered) :
    NoNestedTraced(rendered[j].fn) =>
      LET below == rendered[j].tree.children
      IN /\ below # <<>>
         /\ Last(below).kind = "ret"
         /\ \A c \in 1..(Len(below) - 1) : below[c].kind = "snap"

\* C5: a dbg-traced call without nested traced calls gets one snapshot per line
\* event with non-empty bindings, in order, and no TraceNode child, both while
\* it runs and in the tree printed for it.
C5_SnapshotPerLineEvent == C5_WhileRunning /\ C5_PrintedTreeIsFlat

\* f(x=5, y=10) at its return: snapshots {x, y} then {x, y, z}
C5_Witness ==
  \E t \in Threads : \E i \in 1..Len(stk[t]) :
    /\ PlainDbgCall(t, i)
    /\ stk[t][i].fn = "f" /\ stk[t][i].pc = 2 /\ stk[t][i].phase = "exec"
    /\ Snapshots(stk[t][i].node) =
         << [line |-> 2, vars |-> << [var |-> "x", val |-> "5"], [var |-> "y", val |-> "10"] >>],
            [line |-> 3, vars |-> << [var |-> "x", val |-> "5"], [var |-> "y", val |-> "10"],
                                     [var |-> "z", val |-> "15"] >>] >>

Min(a, b) == IF a < b THEN a ELSE b

\* the step from now to next leaves what the tracers keep as it is: the tree,
\* the call stack, the console, every open session's paused flag, and nobody
\* starts waiting for the operator
TracerStateKept(t) ==
  /\ UNCHANGED << CALL_STACK, DEBUG_TREE, nodes, out >>
  /\ \A i \in 1..Min(Len(stk[t]), Len(stk'[t])) : stk'[t][i].step_mode = stk[t][i].step_mode
  /\ stk'[t] # <<>> => Last(stk'[t]).phase # "paused"

\* the next step raises an event (line; return or exception; call) of a frame
\* whose code is not the function the installed trace function was made for
ForeignEvent(t) ==
  /\ Running(t)
  /\ hook[t].kind # "none"
  /\ TopFrame(t).kind = "func"
  /\ LET fr == TopFrame(t)
         st == Funcs[fr.fn].body[fr.pc]
     IN \/ fr.phase = "line" /\ fr.fn # hook[t].fn
        \/ fr.phase = "exec" /\ st.op \in {"return", "raise", "await"} /\ fr.fn # hook[t].fn
        \/ fr.phase = "exec" /\ st.op = "call" /\ Funcs[st.callee].deco = "none"
             /\ st.callee # hook[t].fn

\* C6: an event of a frame whose code identity is not the traced function's,
\* a different function of the same name included, changes neither CALL_STACK
\* nor the tree nor a paused flag, displays nothing and starts no pause.
C6_ForeignEventsDiscarded ==
  [][\A t \in Threads : ForeignEvent(t) => TracerStateKept(t)]_vars

\* the step session whose trace function is frame fr's local trace function
Session(t, fr) == stk[t][fr.f_trace.owner]

\* the next step is a line event that the frame's step session handles
StepLineEvent(t) ==
  /\ TopIs(t, "func", "line")
  /\ hook[t].kind # "none"
  /\ IsStep(TopFrame(t).f_trace)

NowPaused(t) == stk'[t] # <<>> /\ Last(stk'[t]).phase = "paused"

\* C7 (a): a running controller pauses only at a line event of the traced
\* function whose line is breakpoint_line; (b) at every such event it pauses,
\* before the line runs
C7_PauseStep(t) ==
  LET fr == TopFrame(t)
      atBreak == /\ fr.fn = fr.f_trace.fn
                 /\ Funcs[fr.fn].bp # None
                 /\ Line(fr) = Funcs[fr.fn].bp
  IN (StepLineEvent(t) /\ ~Session(t, fr).step_mode) =>
       /\ NowPaused(t) => atBreak
       /\ atBreak => (NowPaused(t) /\ Last(stk'[t]).pc = fr.pc)

\* C7 (c): with breakpoint_line left at None the session never pauses and
\* reads no command
C7_NoBreakpointNoPause ==
  \A t \in Threads : \A i \in 1..Len(stk[t]) :
    (stk[t][i].kind = "stepw" /\ Funcs[stk[t][i].fn].bp = None)
      => /\ stk[t][i].pauses = 0
         /\ \A k \in 1..Len(out) : out[k].type # "prompt"

\* C7: the step controller goes from running to paused only on a line event
\* of the traced function at breakpoint_line, and does so at every such event
\* while running, before the line executes; with the default breakpoint_line
\* it never pauses and reads no operator command.
C7_PausesExactlyAtBreakpoint ==
  /\ [][\A t \in Threads : C7_PauseStep(t)]_vars
  /\ []C7_NoBreakpointNoPause

\* C8: after the operator's resume ('c') the session does not pause again
\* before the traced call completes, whatever lines come, breakpoint_line
\* included.
C8_NoPauseAfterResume ==
  \A t \in Threads :
    (Running(t) /\ TopFrame(t).kind = "func" /\ TopFrame(t).phase = "paused")
      => ~Session(t, TopFrame(t)).resumed

\* fn's body is a straight line: no call, no await, no line twice
StraightLine(fn) ==
  /\ \A k \in 1..Len(Funcs[fn].body) : Funcs[fn].body[k].op \notin {"call", "await"}
  /\ \A k, n \in 1..Len(Funcs[fn].body) :
       Funcs[fn].body[k].line = Funcs[fn].body[n].line => k = n

\* the index, from 0, of the breakpoint line among fn's lines
BreakIndex(fn) ==
  (CHOOSE k \in 1..Len(Funcs[fn].body) : Funcs[fn].body[k].line = Funcs[fn].bp) - 1

\* C9: advance ('n') is a single step: as long as every pause is answered with
\* advance, at each pause exactly one line of the traced function has run per
\* advance given; and a straight-line function of N lines with its breakpoint
\* at index L completes after exactly N - L advances.
C9_AdvanceIsSingleStep ==
  \A t \in Threads :
    /\ (Running(t) /\ TopFrame(t).kind = "func" /\ TopFrame(t).phase = "paused"
          /\ ~Session(t, TopFrame(t)).resumed)
         => Session(t, TopFrame(t)).began = Session(t, TopFrame(t)).advances
    /\ (TopIs(t, "stepw", "calling") /\ ret[t].kind = "val"
          /\ StraightLine(TopFrame(t).fn) /\ Funcs[TopFrame(t).fn].bp # None
          /\ ~TopFrame(t).resumed)
         => TopFrame(t).advances = Len(Funcs[TopFrame(t).fn].body) - BreakIndex(TopFrame(t).fn)

\* C10: after the operator's abort ('q') the hook is unregistered, the process
\* ends with status 0 and control never comes back to the caller of the
\* stepped function: no caller code runs, sync or async.
C10_AbortEndsProcess ==
  /\ \A t \in Threads : (WrapperHandedBack(t) /\ ret[t].exc = "SystemExit") => hook[t] = NoTrace
  /\ \A i \in 1..Len(received) :
       (received[i].kind = "exc" /\ received[i].exc = "SystemExit")
         => (~received[i].caught /\ proc.status = "exited" /\ proc.code = 0)

RECURSIVE Undecorated(_, _, _)
\* what fn does when it runs with no decorator and no tracing, from its
\* statement pc on: the value it returns or the error it raises
Undecorated(fn, pc, locals) ==
  LET st == Funcs[fn].body[pc]
  IN CASE st.op = "const" -> Undecorated(fn, pc + 1, Bind(locals, st.var, st.k))
       [] st.op = "add" ->
            Undecorated(fn, pc + 1,
                        Bind(locals, st.var, ValueOf(locals, st.a) + ValueOf(locals, st.b)))
       [] st.op \in {"nop", "await"} -> Undecorated(fn, pc + 1, locals)
       [] st.op = "call" ->
            With(Undecorated(st.callee, 1, Funcs[st.callee].args), LAMBDA r :
              IF r.kind = "exc" THEN r ELSE Undecorated(fn, pc + 1, locals))
       [] st.op = "return" -> RetVal(ValueOf(locals, st.var))
       [] st.op = "raise" -> RetExc("ValueError")

\* a step wrapper has handed back to its caller and the operator did not abort
StepHandedBack(t) ==
  /\ WrapperHandedBack(t)
  /\ Funcs[Callee(TopFrame(t))].deco = "step"
  /\ ret[t].exc # "SystemExit"

\* C11 (a): the caller gets what the function itself returns or raises
C11_ResultIsTheFunctions ==
  \A t \in Threads :
    StepHandedBack(t) =>
      ret[t] = Undecorated(Callee(TopFrame(t)), 1, Funcs[Callee(TopFrame(t))].args)

\* fn has a breakpoint and exactly one statement on that line
BreaksOnce(fn) ==
  /\ Funcs[fn].bp # None
  /\ Cardinality({ k \in 1..Len(Funcs[fn].body) : Funcs[fn].body[k].line = Funcs[fn].bp }) = 1

\* C11 (b): a session on such a function that ended without abort and without
\* an advance paused exactly once and was resumed
C11_PausesOnce ==
  \A t \in Threads :
    (TopIs(t, "stepw", "calling") /\ ret[t].kind # "none" /\ ~TopFrame(t).aborted
       /\ BreaksOnce(TopFrame(t).fn) /\ TopFrame(t).advances = 0)
      => (TopFrame(t).pauses = 1 /\ TopFrame(t).resumed)

\* what the console showed last of the local variables
LastTable == Last(SelectSeq(out, LAMBDA o : o.type \in {"table", "novars"}))

\* C11 (c): at a pause the bindings made so far are the ones on display
C11_BindingsVisible ==
  \A t \in Threads :
    (Running(t) /\ TopFrame(t).kind = "func" /\ TopFrame(t).phase = "paused")
      => LastTable.rows = [i \in 1..Len(TopFrame(t).locals) |->
                            [var |-> TopFrame(t).locals[i].var,
                             val |-> ToString(TopFrame(t).locals[i].val)]]

\* C11: a stepped call that completes without abort hands its caller exactly
\* the function's result or error, whatever the operator entered; when the
\* breakpoint line runs once the session pauses exactly once, showing the
\* bindings made so far, and resume completes the call.
C11_StepIsTransparent ==
  C11_ResultIsTheFunctions /\ C11_PausesOnce /\ C11_BindingsVisible

\* the number of rows of the table that name var
RowsOf(rows, var) == Cardinality({ i \in 1..Len(rows) : rows[i].var = var })

\* the table has no row for a name starting with "__", one row for every other
\* binding, holding its repr or, if repr raises, the placeholder
TableShows(rows, locals) ==
  \A i \in 1..Len(locals) :
    IF StartsWithDunder(locals[i].var)
    THEN RowsOf(rows, locals[i].var) = 0
    ELSE /\ RowsOf(rows, locals[i].var) = 1
         /\ \E k \in 1..Len(rows) :
              /\ rows[k].var = locals[i].var
              /\ rows[k].val = IF ReprError(locals[i].val) # "" THEN Placeholder
                               ELSE ToString(locals[i].val)

\* the innermost frame is the stepped function and its session has just
\* handled the line event of the line it is on
StepLineHandled(t) ==
  /\ Running(t)
  /\ TopFrame(t).kind = "func"
  /\ TopFrame(t).phase \in {"exec", "paused"}
  /\ hook[t].kind # "none"
  /\ IsStep(TopFrame(t).f_trace)
  /\ TopFrame(t).fn = TopFrame(t).f_trace.fn

\* C12: _display_variables never raises, whatever the bindings: it is about to
\* be given the stepped function's bindings and raises nothing; and once it
\* has run, the table on the console leaves out the "__" names, has every
\* other binding exactly once, and shows the placeholder for a value whose
\* repr raises.
C12_FormatterNeverRaises ==
  \A t \in Threads :
    /\ StepLineEvent(t) => display_variables_raises(TopFrame(t).locals) = ""
    /\ (StepLineHandled(t) /\ TopFrame(t).locals # <<>>)
         => (LastTable.type = "table" /\ TableShows(LastTable.rows, TopFrame(t).locals))

\* the tracing sessions open on thread t: the wrapper frames on its stack
Sessions(t) == { i \in 1..Len(stk[t]) : stk[t][i].kind \in {"dbgw", "stepw"} }

\* C13: a traced call started while a session is active is rejected, so at no
\* instant are two tracing sessions open in the process.
C13_OneSessionAtATime ==
  /\ \A t \in Threads : Cardinality(Sessions(t)) <= 1
  /\ \A t, u \in Threads : (t # u /\ Sessions(t) # {}) => Sessions(u) = {}

\* C14: while an asynchronous step session waits for the operator, the event
\* loop is not blocked: another ready task can take its next step.
C14_LoopRunsWhilePaused ==
  \A t \in Threads :
    (Running(t) /\ TopFrame(t).kind = "func" /\ TopFrame(t).phase = "paused"
       /\ Funcs[TopFrame(t).fn].async /\ Ticks < MaxTicks)
      => ENABLED OtherTask(t)

\* how the runs of the wrapped function ended, in order, in the call in progress
Invocations ==
  LET ran == SelectSeq(out, LAMBDA o : o.type = "ran")
  IN [k \in 1..Len(ran) |-> ran[k].rows[1]]

\* retry's wrapper has handed back to the main script
RetryHandedBack(t) ==
  /\ WrapperHandedBack(t)
  /\ Funcs[Callee(TopFrame(t))].deco = "retry"

\* C15: retry's wrapper, sync or async, runs the function at most
\* max_attempts times, never again after a run that did not raise, and hands
\* back that run's result; when max_attempts runs all raised an error among
\* exceptions it hands back None and no error.
C15_RetryBounded ==
  \A t \in Threads :
    /\ (Running(t) /\ Len(stk[t]) > 1 /\ stk[t][2].kind = "retryw")
         => /\ Len(Invocations) <= RetryOf[stk[t][2].fn].max_attempts
            /\ \A k \in 1..(Len(Invocations) - 1) : Invocations[k] # "return"
    /\ RetryHandedBack(t) =>
         LET conf == RetryOf[Callee(TopFrame(t))]
             body == Funcs[Callee(TopFrame(t))].body
         IN /\ Len(Invocations) <= conf.max_attempts
            /\ \A k \in 1..(Len(Invocations) - 1) : Invocations[k] # "return"
            /\ (Invocations # <<>> /\ Last(Invocations) = "return")
                 => ret[t] = RetVal(body[1].k)
            /\ (Len(Invocations) = conf.max_attempts
                   /\ \A k \in 1..Len(Invocations) : Invocations[k] \in conf.exceptions)
                 => ret[t] = RetVal(None)

\* rs ran twice, raised ValueError and then returned 7, which the caller got
C15_Witness ==
  \E t \in Threads :
    /\ RetryHandedBack(t)
    /\ Callee(TopFrame(t)) = "rs"
    /\ Invocations = << "ValueError", "return" >>
    /\ ret[t] = RetVal(7)

\* ra ran max_attempts times, raised each time, and the caller got None
C15_WitnessExhausted ==
  \E t \in Threads :
    /\ RetryHandedBack(t)
    /\ Callee(TopFrame(t)) = "ra"
    /\ Len(Invocations) = MaxAttempts
    /\ \A k \in 1..Len(Invocations) : Invocations[k] \in Exceptions
    /\ ret[t] = RetVal(None)

\* the traced invocations in progress on thread t: those a TraceNode was built
\* for at their call event and that have not returned or raised yet
OpenTraced(t) == { i \in 1..Len(stk[t]) : stk[t][i].kind = "func" /\ stk[t][i].node # 0 }

\* C16: the depth of CALL_STACK is the number of call events not yet matched
\* by a return, and it is 0 once the top-level dbg wrapper has exited, whether
\* the call returned or raised.
C16_StackDepthMatchesOpenCalls ==
  \A t \in Threads :
    /\ Len(CALL_STACK) = Cardinality(OpenTraced(t))
    /\ (\A i \in 1..Len(stk[t]) : stk[t][i].kind # "dbgw") => CALL_STACK = <<>>

RECURSIVE OneReturnLabel(_)
\* in the printed tree, the TraceNode and every TraceNode below it carry
\* exactly one return label
OneReturnLabel(tree) ==
  /\ Len(SelectSeq(tree.children, LAMBDA c : c.kind = "ret")) = 1
  /\ \A i \in 1..Len(tree.children) :
       tree.children[i].kind = "call" => OneReturnLabel(tree.children[i])

\* C17: in a rendered tree every TraceNode whose invocation has returned, the
\* root and the nested ones, carries exactly one return-value label.
C17_OneReturnLabelPerNode ==
  \A j \in 1..Len(rendered) : OneReturnLabel(rendered[j].tree)

\* the innermost frame is a function under dbg whose line event has just been
\* handled by trace_lines
DbgLineHandled(t) ==
  /\ Running(t)
  /\ TopFrame(t).kind = "func"
  /\ TopFrame(t).phase = "exec"
  /\ TopFrame(t).node # 0
  /\ TopFrame(t).locals # <<>>

\* C18: in the tree tracer a binding whose value cannot be shown is recorded
\* with the placeholder, in the snapshot of that line event, and the traced
\* call does not fail for it: the function hands dbg's wrapper its own result
\* or its own error.
C18_RenderFailureStaysInside ==
  \A t \in Threads :
    /\ DbgLineHandled(t) =>
         /\ Snapshots(TopFrame(t).node) # <<>>
         /\ TableShows(Last(Snapshots(TopFrame(t).node)).vars,
                       SelectSeq(TopFrame(t).locals, LAMBDA b : ~StartsWithDunder(b.var)))
    /\ (TopIs(t, "dbgw", "calling") /\ ret[t].kind # "none")
         => ret[t] = Undecorated(TopFrame(t).fn, 1, Funcs[TopFrame(t).fn].args)

\* a finished session as it can be observed: the console, the outcome, and the
\* pauses and commands it had
Observed(c, outcome) ==
  [out |-> c.out, ret |-> outcome, pauses |-> c.pauses, advances |-> c.advances,
   resumed |-> c.resumed, bad |-> c.bad, aborted |-> c.aborted, step_mode |-> c.sm]

RECURSIVE SyncAtLine(_, _, _, _), SyncInLoop(_, _, _, _)
\* The synchronous controller (the trace_calls of _debug_function_sync) driven
\* by the line events of fn's statements from pc on, an await counting as a
\* plain line, under every choice of operator commands: the sessions it can
\* have, as observed at their end.  c is the session so far.
SyncAtLine(fn, pc, locals, c) ==
  LET self == Closure("step_sync", fn, 2)
      frame == [Frame("func", fn, locals, self) EXCEPT !.pc = pc]
      r == sync_trace_calls(self, frame, "line", 0, World(<<>>, 0, <<>>, c.out), c.sm)
      c1 == [c EXCEPT !.sm = r.sm, !.out = r.g.out, !.pauses = IF r.wait THEN @ + 1 ELSE @]
      st == Funcs[fn].body[pc]
  IN IF r.wait THEN SyncInLoop(fn, pc, locals, c1)
     ELSE CASE st.op = "const" -> SyncAtLine(fn, pc + 1, Bind(locals, st.var, st.k), c1)
            [] st.op = "add" ->
                 SyncAtLine(fn, pc + 1,
                            Bind(locals, st.var, ValueOf(locals, st.a) + ValueOf(locals, st.b)),
                            c1)
            [] st.op \in {"nop", "await"} -> SyncAtLine(fn, pc + 1, locals, c1)
            [] st.op = "return" -> { Observed(c1, RetVal(ValueOf(locals, st.var))) }
            [] st.op = "raise" -> { Observed(c1, RetExc("ValueError")) }

\* the same, with the controller in its input loop at the line event of pc
SyncInLoop(fn, pc, locals, c) ==
  UNION { LET r == sync_input_loop(cmd, World(<<>>, 0, <<>>, c.out), c.sm)
              c1 == [c EXCEPT !.sm = r.sm, !.out = r.g.out,
                              !.advances = IF cmd = "n" THEN @ + 1 ELSE @,
                              !.resumed = @ \/ cmd = "c"]
              st == Funcs[fn].body[pc]
          IN IF r.err # "" THEN { Observed([c1 EXCEPT !.aborted = TRUE], RetExc(r.err)) }
             ELSE IF r.wait
             THEN SyncInLoop(fn, pc, locals, [c1 EXCEPT !.bad = @ + 1])
             ELSE CASE st.op = "const" -> SyncAtLine(fn, pc + 1, Bind(locals, st.var, st.k), c1)
                    [] st.op = "add" ->
                         SyncAtLine(fn, pc + 1,
                                    Bind(locals, st.var,
                                         ValueOf(locals, st.a) + ValueOf(locals, st.b)), c1)
                    [] st.op \in {"nop", "await"} -> SyncAtLine(fn, pc + 1, locals, c1)
                    [] st.op = "return" -> { Observed(c1, RetVal(ValueOf(locals, st.var))) }
                    [] st.op = "raise" -> { Observed(c1, RetExc("ValueError")) }
        : cmd \in { x \in Commands : x \in {"n", "c", "q"} \/ c.bad < MaxBad } }

\* a session before its first line event
NewSession ==
  [sm |-> FALSE, out |-> <<>>, pauses |-> 0, advances |-> 0, resumed |-> FALSE, bad |-> 0,
   aborted |-> FALSE]

\* an asynchronous step session on thread t has ended: the coroutine has come
\* back to _debug_function_async
AsyncSessionEnded(t) ==
  /\ TopIs(t, "stepw", "calling")
  /\ Funcs[TopFrame(t).fn].async
  /\ ret[t].kind # "none"

\* C19 (a): an asynchronous session ends as the synchronous controller can end
\* on the same lines with the same commands: same console, pauses, commands
\* taken, step mode and outcome
C19_EndsAsSyncWould ==
  \A t \in Threads :
    AsyncSessionEnded(t) =>
      LET w == TopFrame(t)
          c == [sm |-> w.step_mode, out |-> SelectSeq(out, LAMBDA o : o.type # "task"),
                pauses |-> w.pauses, advances |-> w.advances, resumed |-> w.resumed,
                bad |-> w.bad, aborted |-> w.aborted]
      IN Observed(c, ret[t]) \in SyncAtLine(w.fn, 1, Funcs[w.fn].args, NewSession)

\* C19 (b): across a suspension at an await the controller keeps its state
\* and stays attached: the step resuming the coroutine leaves step_mode as it
\* was, with the session's trace function on the frame and as the hook
C19_SurvivesSuspension ==
  \A t \in Threads :
    (TopIs(t, "func", "suspended") /\ stk'[t] # stk[t]) =>
      /\ Len(stk'[t]) = Len(stk[t])
      /\ \A i \in 1..(Len(stk[t]) - 1) : stk'[t][i] = stk[t][i]
      /\ IsStep(Last(stk'[t]).f_trace)
      /\ hook'[t] = Last(stk'[t]).f_trace

\* C19: the asynchronous step controller behaves as the synchronous one and
\* keeps its state while the coroutine is suspended at an await: the next
\* line event is treated as the synchronous controller would treat it, and
\* pauses and result are the same.
C19_AsyncIsSyncController ==
  /\ []C19_EndsAsSyncWould
  /\ [][C19_SurvivesSuspension]_vars

\* async_step was stepped with 'n' from its breakpoint, across its await, to
\* its return
C19_Witness ==
  \E t \in Threads :
    /\ AsyncSessionEnded(t)
    /\ TopFrame(t).fn = "async_step"
    /\ TopFrame(t).pauses = 5 /\ TopFrame(t).advances = 5
    /\ ret[t] = RetVal(300)

\* thread t, at its base frame, calls a dbg-decorated function in this step
EntersDbg(t) == TopIs(t, "main", "idle") /\ stk'[t] # stk[t]

\* C20 (a): an invocation that is outermost in its thread takes the one
\* CALL_STACK as it finds it, whichever thread's events filled it: it is
\* top-level only when the stack is empty, and its TraceNode goes under the
\* node on top of the stack and is pushed onto it
C20_EntersOnSharedStack ==
  \A t \in Threads :
    EntersDbg(t) =>
      LET w == stk'[t][2]
          fr == stk'[t][3]
      IN /\ w.is_top_level = (CALL_STACK = <<>>)
         /\ fr.node = Len(nodes) + 1
         /\ nodes'[fr.node].parent = (IF CALL_STACK = <<>> THEN 0 ELSE Last(CALL_STACK))
         /\ CALL_STACK' = Append(CALL_STACK, fr.node)

\* C20 (b): the wrapper of an invocation that was not taken for top-level
\* prints no tree when it ends
C20_NotTopLevelNotRendered ==
  \A t \in Threads :
    (TopIs(t, "dbgw", "calling") /\ stk'[t] # stk[t] /\ ~TopFrame(t).is_top_level) =>
      rendered' = rendered

\* C20: two dbg-traced calls in different threads work on the single
\* CALL_STACK: the second, though outermost in its own thread, is attached
\* under the node the first left on the stack, is not top-level, and its tree
\* is not rendered.
C20_ThreadsShareCallStack ==
  [][C20_EntersOnSharedStack /\ C20_NotTopLevelNotRendered]_vars

\* both threads are inside a traced function, and the TraceNode of one
\* thread's outermost invocation hangs under the other thread's node
C20_Witness ==
  \E t, u \in Threads :
    /\ t # u
    /\ Len(stk[t]) = 3 /\ Len(stk[u]) = 3
    /\ stk[t][3].node > 0 /\ stk[u][3].node > 0
    /\ nodes[stk[u][3].node].parent = stk[t][3].node
    /\ ~stk[u][2].is_top_level

\* both threads got their call's result back and one tree was printed
C20_OneTreeForTwoCalls ==
  /\ \A t \in Threads : TopIs(t, "main", "idle") /\ TopFrame(t).pc = 2
  /\ \A i \in 1..Len(received) : received[i].kind = "val"
  /\ Len(received) = 2
  /\ Len(rendered) = 1

\* a call statement of a traced callee (under dbg or step_debugger)
TracedCall(st) == st.op = "call" /\ Funcs[st.callee].deco \in {"dbg", "step"}

\* the innermost frame of thread t is a session's traced function, entered
\* from the session's wrapper, and a traced call it made has started and
\* finished (by return: it is past the call; or by exception, about to be
\* raised in it)
InnerSessionOver(t) ==
  /\ Running(t)
  /\ Len(stk[t]) >= 3
  /\ LET fr == TopFrame(t)
         w == stk[t][Len(stk[t]) - 1]
     IN /\ fr.kind = "func"
        /\ w.kind \in {"dbgw", "stepw"}
        /\ w.fn = fr.fn
        /\ \/ \E j \in 1..(fr.pc - 1) : TracedCall(Funcs[fr.fn].body[j])
           \/ /\ fr.phase = "calling"
              /\ ret[t].kind # "none"
              /\ TracedCall(Funcs[fr.fn].body[fr.pc])

\* C21 (a): after the inner session the thread's hook is None, not the outer
\* session's trace function
C21_HookLeftUnset ==
  \A t \in Threads : InnerSessionOver(t) => hook[t] = NoTrace

\* C21 (b): from then on a step of the outer function that starts no new
\* call adds no snapshot or node, displays nothing, records no line event of
\* the frame and does not pause
C21_OuterEventsLost ==
  \A t \in Threads :
    (InnerSessionOver(t) /\ stk'[t] # stk[t] /\ Len(stk'[t]) <= Len(stk[t])) =>
      /\ nodes' = nodes
      /\ out' = out
      /\ CALL_STACK' = CALL_STACK
      /\ stk'[t][Len(stk[t]) - 1].pauses = stk[t][Len(stk[t]) - 1].pauses
      /\ Len(stk'[t]) = Len(stk[t]) =>
            /\ Last(stk'[t]).seen = TopFrame(t).seen
            /\ Last(stk'[t]).phase # "paused"

\* C21: when a traced call starts and finishes while an outer session's
\* traced function is still running, the inner wrapper leaves the hook unset
\* instead of restoring the outer handler, and no later event of the outer
\* session is processed: no snapshot, no displayed line, no pause at a
\* breakpoint line reached later.
C21_InnerTeardownSilencesOuter ==
  /\ []C21_HookLeftUnset
  /\ [][C21_OuterEventsLost]_vars

\* so, stepped with its breakpoint on line 4, called f and is now past the
\* line event of line 4 without having paused
C21_Witness ==
  \E t \in Threads :
    /\ InnerSessionOver(t)
    /\ TopFrame(t).fn = "so"
    /\ Line(TopFrame(t)) = Funcs["so"].bp
    /\ TopFrame(t).phase = "exec"
    /\ stk[t][Len(stk[t]) - 1].pauses = 0

\* the three commands of the step controller
BreakpointCommands == {"n", "c", "q"}

\* C22 (a): a line that is none of the three commands leaves the session
\* paused at the same line with the function where it was: nothing changes
\* but the prompt shown for it and the count of such lines
C22_OtherInputChangesNothing ==
  \A t \in Threads : \A raw \in Inputs :
    (strip_lower(raw) \notin BreakpointCommands /\ Input(t, raw)) =>
      LET own == TopFrame(t).f_trace.owner
      IN /\ Len(stk'[t]) = Len(stk[t])
         /\ Last(stk'[t]) = TopFrame(t)
         /\ stk'[t][own] = [stk[t][own] EXCEPT !.bad = @ + 1]
         /\ \A i \in 1..Len(stk[t]) : i # own => stk'[t][i] = stk[t][i]
         /\ hook'[t] = hook[t] /\ ret'[t] = ret[t]
         /\ nodes' = nodes /\ CALL_STACK' = CALL_STACK /\ DEBUG_TREE' = DEBUG_TREE
         /\ rendered' = rendered /\ received' = received /\ proc' = proc
         /\ out' = Append(out, Shown("prompt", 0, <<>>))
         /\ \E again \in Inputs : ENABLED Input(t, again)

\* C22 (b): a paused session leaves its wait only by one of the three commands
C22_OnlyCommandsEndTheWait ==
  \A t \in Threads :
    (TopIs(t, "func", "paused") /\ ~(Running(t)' /\ Len(stk'[t]) = Len(stk[t])
                                     /\ Last(stk'[t]).phase = "paused")) =>
      \E raw \in Inputs : strip_lower(raw) \in BreakpointCommands /\ Input(t, raw)

\* C22: while the step controller is paused, an operator input other than
\* advance ('n'), resume ('c') or abort ('q') changes nothing: the controller
\* stays paused at the same line, the traced function does not advance and
\* the prompt is issued again; only one of the three commands ends the wait.
C22_OtherInputKeepsWaiting ==
  [][C22_OtherInputChangesNothing /\ C22_OnlyCommandsEndTheWait]_vars

\* test_function is paused at its breakpoint line after a line that was no
\* command, none of its lines run since the pause
C22_Witness ==
  \E t \in Threads :
    /\ TopIs(t, "func", "paused")
    /\ TopFrame(t).fn = "test_function"
    /\ Line(TopFrame(t)) = Funcs["test_function"].bp
    /\ stk[t][TopFrame(t).f_trace.owner].bad > 0
    /\ stk[t][TopFrame(t).f_trace.owner].advances = 0
    /\ stk[t][TopFrame(t).f_trace.owner].began = 0

====
